---------------------------- MODULE Spec2Model ----------------------------
(***************************************************************************)
(* A model of src/pipeline.py: a batch job that downloads a SQLite file    *)
(* from Google Drive and exports every table to a CSV file, then writes    *)
(* manifest.json.  One behaviour is a sequence of runs (processes) sharing *)
(* one working directory: tmp_download/ and output/ persist between runs,  *)
(* everything else is per process.                                         *)
(*                                                                         *)
(* Names are sequences of ASCII code points, so that safe_name, the byte   *)
(* order of the catalog and glob's treatment of a leading dot are computed *)
(* as the code computes them.  A file in output/ is a sequence of lines.   *)
(***************************************************************************)
EXTENDS Integers, Sequences, FiniteSets, TLC

(***************************************************************************)
(* Bounds of the model.                                                    *)
(***************************************************************************)
MaxRuns == 2
MaxRows == 2
MaxChunk == 2
MaxTables == 2

(***************************************************************************)
(* Characters.                                                             *)
(***************************************************************************)
Hyphen == 45
Dot == 46
Underscore == 95

\* str.isalnum on ASCII: digits, upper-case and lower-case letters
IsAlnum(c) == (48 <= c /\ c <= 57) \/ (65 <= c /\ c <= 90) \/ (97 <= c /\ c <= 122)

\* "".join(c if c.isalnum() or c in "-._" else "_" for c in s)
safe_name(s) ==
  [i \in 1..Len(s) |-> IF IsAlnum(s[i]) \/ s[i] \in {Hyphen, Dot, Underscore}
                       THEN s[i] ELSE Underscore]

\* ".csv" and "manifest.json"
DotCsv == <<46, 99, 115, 118>>
ManifestName == <<109, 97, 110, 105, 102, 101, 115, 116, 46, 106, 115, 111, 110>>

\* os.path.join(out_dir, f"{safe_name(t)}.csv"), as the name inside output/
CsvName(t) == safe_name(t) \o DotCsv

\* Byte-wise (BINARY collation) order of two names: ORDER BY name
RECURSIVE NameLess(_, _)
NameLess(a, b) ==
  IF a = <<>> THEN b # <<>>
  ELSE IF b = <<>> THEN FALSE
  ELSE IF a[1] # b[1] THEN a[1] < b[1]
  ELSE NameLess(Tail(a), Tail(b))

\* The table names the databases of the model draw from:
\* ".a", "a", "a " and "a_"  ("a " and "a_" share the sanitized name "a_")
TableNames == { <<46, 97>>, <<97>>, <<97, 32>>, <<97, 95>> }


(***************************************************************************)
(* Databases.  A file in tmp_download/ holds a content: its size (0, or 1  *)
(* for "more than zero bytes") and, read as a SQLite database, its tables  *)
(* (table name -> number of data rows).  A zero-byte file opens as a       *)
(* database without tables.                                                *)
(***************************************************************************)
NoTables == [t \in {} |-> 0]

ZeroBytes == [size |-> 0, tables |-> NoTables]

TableSets(names, maxTables) == {S \in SUBSET names : Cardinality(S) <= maxTables}

\* Every database over `names` with at most maxTables tables of `rows` rows
DatabasesOver(names, maxTables, rows) ==
  {[size |-> 1, tables |-> f] : f \in UNION {[S -> rows] : S \in TableSets(names, maxTables)}}

Databases == DatabasesOver(TableNames, MaxTables, 0..MaxRows)

\* The databases of the runs that share a working directory: one row a table
SmallDatabases == DatabasesOver(TableNames \ {<<97>>}, MaxTables, {1})

\* The rows of table t, in rowid order, and the header line of its columns
Rows(t, n) == [i \in 1..n |-> <<"row", t, i>>]
Header(t) == <<"header", t>>

\* SELECT name FROM sqlite_master WHERE type='table' ORDER BY name
Catalog(tabs) ==
  LET S == DOMAIN tabs
      n == Cardinality(S)
  IN  CHOOSE s \in [1..n -> S] :
        /\ \A i, j \in 1..n : i < j => NameLess(s[i], s[j])

(***************************************************************************)
(* pandas: read_sql_query(..., chunksize=n) fetches n rows at a time until *)
(* a fetch returns nothing; a query without rows yields one empty frame    *)
(* (that still carries the columns).                                       *)
(***************************************************************************)
Min(a, b) == IF a <= b THEN a ELSE b

RECURSIVE FetchMany(_, _)
FetchMany(rows, n) ==
  IF rows = <<>> THEN <<>>
  ELSE <<SubSeq(rows, 1, Min(n, Len(rows)))>>
         \o FetchMany(SubSeq(rows, Min(n, Len(rows)) + 1, Len(rows)), n)

read_sql_query(rows, n) == IF rows = <<>> THEN << <<>> >> ELSE FetchMany(rows, n)

\* header=first: the header line is written with the first chunk only
HeaderFlag(first) == first

\* chunk.to_csv(out_csv, mode=("w" if first else "a"), header=first)
to_csv(file, t, chunk, first) ==
  (IF first THEN <<>> ELSE file) \o (IF HeaderFlag(first) THEN <<Header(t)>> ELSE <<>>) \o chunk

\* The file after the first k chunks of the loop of lines 97-100
RECURSIVE WriteChunks(_, _, _, _)
WriteChunks(file, t, chunks, k) ==
  IF k = 0 THEN file
  ELSE to_csv(WriteChunks(file, t, chunks, k - 1), t, chunks[k], k = 1)

\* (mutation: rows_total = len(chunk), the last chunk's rows only)
RowsTotalLast(chunks, k) == IF k = 0 THEN 0 ELSE Len(chunks[k])

\* rows_total += len(chunk), over the first k chunks
RECURSIVE RowsTotal(_, _)
RowsTotal(chunks, k) == IF k = 0 THEN 0 ELSE RowsTotal(chunks, k - 1) + Len(chunks[k])

\* hashlib.md5 of the file's bytes: a digest that identifies the content
md5sum(lines) == <<"md5", lines>>

\* Reading a delimited file back: its first line is the header, the rest is data
ReadBackColumns(lines) == IF lines = <<>> THEN <<>> ELSE lines[1]
ReadBackRows(lines) == IF lines = <<>> THEN 0 ELSE Len(lines) - 1

(***************************************************************************)
(* State.  stage is tmp_download/ and output is output/: both outlive a    *)
(* process.  The configuration is read from the environment when a process *)
(* starts (lines 11-21); the rest is the position and the locals of main.  *)
(***************************************************************************)
VARIABLES
  run,                \* the number of the process (1 is the first run)
  prev,               \* <<>>, or <<what the previous process was and did>>
  pc,                 \* the position in main
  now,                \* datetime.now(ZoneInfo("Europe/Rome")): [hour, minute]
  FORCE_RUN,
  GITHUB_EVENT_NAME,
  CLEAN_OUTPUT,
  SRC_FILE_ID,        \* "" when no direct file id is configured
  SQLITE_CHUNKSIZE,
  stage,              \* tmp_download/: path -> [by, content]
  output,             \* output/: name -> [by, lines]
  remote,             \* what the shared folder held when this run fetched it
  db_path,            \* the path download_sqlite_from_drive returned, <<>> before
  tables,             \* the tables the export loop has still to visit
  exported,           \* the Export Result list
  log,                \* the lines this process logged
  exc,                \* the exception that reached line 162, "none" otherwise
  exitcode            \* <<>> while the process runs, then <<code>>

vars == <<run, prev, pc, now, FORCE_RUN, GITHUB_EVENT_NAME, CLEAN_OUTPUT, SRC_FILE_ID,
          SQLITE_CHUNKSIZE, stage, output, remote, db_path, tables, exported,
          log, exc, exitcode>>

config == <<now, FORCE_RUN, GITHUB_EVENT_NAME, CLEAN_OUTPUT, SRC_FILE_ID, SQLITE_CHUNKSIZE>>
locals == <<db_path, tables, exported>>

NoFiles == [p \in {} |-> 0]

\* A directory with file f written (created or replaced)
Put(dir, f, file) == [g \in DOMAIN dir \cup {f} |-> IF g = f THEN file ELSE dir[g]]

\* A directory without the entries in gone
Without(dir, gone) == [g \in DOMAIN dir \ gone |-> dir[g]]

\* Paths in tmp_download/ and their base names
ByIdPath == "source_by_id.sqlite3"
TARGET_FILENAME == "data_raw.sqlite3"
FolderPaths == {"data_raw.sqlite3", "sub/data_raw.sqlite3"}
Basename(p) == IF p = "sub/data_raw.sqlite3" THEN "data_raw.sqlite3" ELSE p

\* os.path.getmtime: a file written by a later run has a later mtime
getmtime(dir, p) == dir[p].by

(***************************************************************************)
(* The configurations and clock readings a process may start with.         *)
(***************************************************************************)
Hours == 0..23
Minutes == {0, 1, 30, 59}
Times == [hour : Hours, minute : Minutes]
Events == {"schedule", "workflow_dispatch"}

Envs(times, forces, events, cleans, ids, chunks) ==
  [now : times, force : forces, event : events, clean : cleans, id : ids, chunk : chunks]

\* Whether line l was logged by this process
InLog(l) == \E i \in 1..Len(log) : log[i] = l

\* The process reached the end of main with its manifest written
Completed == pc = "done" /\ InLog(<<"manifest">>)

\* Lines 11-27 of a fresh process, and the entry into main
Start(e, r) ==
  /\ run' = r
  /\ prev' = <<[clean |-> CLEAN_OUTPUT, completed |-> Completed]>>
  /\ pc' = "gate"
  /\ now' = e.now
  /\ FORCE_RUN' = e.force
  /\ GITHUB_EVENT_NAME' = e.event
  /\ CLEAN_OUTPUT' = e.clean
  /\ SRC_FILE_ID' = e.id
  /\ SQLITE_CHUNKSIZE' = e.chunk
  /\ remote' = {}
  /\ db_path' = <<>>
  /\ tables' = <<>>
  /\ exported' = <<>>
  /\ log' = <<>>
  /\ exc' = "none"
  /\ exitcode' = <<>>

InitWith(envs) ==
  \E e \in envs :
    /\ run = 1
    /\ prev = <<>>
    /\ pc = "gate"
    /\ now = e.now
    /\ FORCE_RUN = e.force
    /\ GITHUB_EVENT_NAME = e.event
    /\ CLEAN_OUTPUT = e.clean
    /\ SRC_FILE_ID = e.id
    /\ SQLITE_CHUNKSIZE = e.chunk
    /\ stage = NoFiles
    /\ output = NoFiles
    /\ remote = {}
    /\ db_path = <<>>
    /\ tables = <<>>
    /\ exported = <<>>
    /\ log = <<>>
    /\ exc = "none"
    /\ exitcode = <<>>

\* The next process in the same working directory
NextRun(envs) ==
  /\ pc = "done"
  /\ run < MaxRuns
  /\ \E e \in envs : Start(e, run + 1)
  /\ UNCHANGED <<stage, output>>

(***************************************************************************)
(* Lines 158-165: the exit code of the process.                            *)
(***************************************************************************)
\* (mutation: the handler of line 162 logs the error and does not call sys.exit)
ExitCodeZero(e) == 0

ExitCode(e) == IF e = "none" THEN 0 ELSE 1

\* main returned: "Run COMPLETATO.", exit code 0
Return(line) ==
  /\ pc' = "done"
  /\ exc' = "none"
  /\ exitcode' = <<ExitCode("none")>>
  /\ log' = log \o <<line, <<"completed">>>>

\* an exception left main: "ERRORE FATALE:", the traceback, sys.exit(1)
Raise(e, lines) ==
  /\ pc' = "done"
  /\ exc' = e
  /\ exitcode' = <<ExitCode(e)>>
  /\ log' = log \o lines \o <<<<"fatal">>>>

(***************************************************************************)
(* The time-window gate, lines 48-51 and 131-138.                          *)
(***************************************************************************)
within_window_europe_rome(t) ==
  (15 <= t.hour /\ t.hour <= 23) \/ (0 <= t.hour /\ t.hour <= 2)

Override == FORCE_RUN \/ GITHUB_EVENT_NAME = "workflow_dispatch"

Proceeds == Override \/ within_window_europe_rome(now)

Gate ==
  /\ pc = "gate"
  /\ \/ /\ ~Proceeds
        /\ Return(<<"skip">>)
     \/ /\ Proceeds
        /\ pc' = "clean"
        /\ log' = Append(log, IF Override THEN <<"override">> ELSE <<"inside">>)
        /\ UNCHANGED <<exc, exitcode>>
  /\ UNCHANGED <<run, prev, config, stage, output, remote, locals>>

(***************************************************************************)
(* clean_output_dir, lines 41-46 and 141-142.  glob's "*" does not match a *)
(* name that starts with a dot.  Every entry of output/ is a regular file  *)
(* this program wrote, which os.remove removes.                            *)
(***************************************************************************)
Glob(dir) == {f \in DOMAIN dir : f[1] # Dot}

clean_output_dir(dir) == Without(dir, Glob(dir))

Clean ==
  /\ pc = "clean"
  /\ output' = IF CLEAN_OUTPUT THEN clean_output_dir(output) ELSE output
  /\ pc' = "download"
  /\ UNCHANGED <<run, prev, config, stage, remote, locals, log, exc, exitcode>>

(***************************************************************************)
(* download_sqlite_from_drive, lines 53-83 (called at line 145).           *)
(* gdown is the environment: a call raises, or returns having written a    *)
(* file, or returns having written nothing.                                *)
(***************************************************************************)
\* tmp_download/ after gdown.download(id=SRC_FILE_ID, output=out) returned
DirectResults(dbs) ==
  {stage} \cup {Put(stage, ByIdPath, [by |-> run, content |-> c]) : c \in dbs \cup {ZeroBytes}}

\* (mutation: the size of the file is not looked at)
DirectOkExists(st) == ByIdPath \in DOMAIN st

\* os.path.exists(out) and os.path.getsize(out) > 0
DirectOk(st) == ByIdPath \in DOMAIN st /\ st[ByIdPath].content.size > 0

\* What the shared folder may hold: no file named TARGET_FILENAME, or one
RemoteFolders(dbs) ==
  {{}} \cup {{[path |-> p, content |-> c]} : p \in FolderPaths, c \in dbs}

\* tmp_download/ after gdown.download_folder(id=SRC_FOLDER_ID, output=DOWNLOADDIR)
RECURSIVE Fetched(_, _, _)
Fetched(st, rem, r) ==
  IF rem = {} THEN st
  ELSE LET f == CHOOSE f \in rem : TRUE
       IN  Fetched(Put(st, f.path, [by |-> r, content |-> f.content]), rem \ {f}, r)

\* glob(DOWNLOADDIR/**/*) filtered by base name (every entry is a regular file)
Candidates(st) == {p \in DOMAIN st : Basename(p) = TARGET_FILENAME}

\* max(candidates, key=os.path.getmtime)
Best(st, cands) == CHOOSE p \in cands : \A q \in cands : getmtime(st, q) <= getmtime(st, p)

\* Step 2, lines 69-83, entered with tmp_download/ = st and the lines logged so far
FolderSearch(st, dbs, logged) ==
  \/ /\ stage' = st
     /\ Raise("DownloadError", logged \o <<<<"try_folder">>>>)
     /\ UNCHANGED <<remote, db_path>>
  \/ \E rem \in RemoteFolders(dbs) :
       LET st2 == Fetched(st, rem, run)
           cands == Candidates(st2)
       IN  /\ stage' = st2
           /\ remote' = rem
           /\ IF cands = {}
              THEN /\ Raise("FileNotFoundError", logged \o <<<<"try_folder">>, <<"no_candidates">>>>)
                   /\ UNCHANGED db_path
              ELSE /\ db_path' = <<Best(st2, cands)>>
                   /\ pc' = "export"
                   /\ log' = log \o logged \o <<<<"try_folder">>, <<"selected", Best(st2, cands)>>>>
                   /\ UNCHANGED <<exc, exitcode>>

\* The condition of line 59
DirectConfigured == SRC_FILE_ID # ""

Download(dbs) ==
  /\ pc = "download"
  /\ \/ /\ DirectConfigured
        /\ \/ /\ Raise("DownloadError", <<<<"try_id">>>>)
              /\ UNCHANGED <<stage, remote, db_path>>
           \/ \E st \in DirectResults(dbs) :
                IF DirectOk(st)
                THEN /\ stage' = st
                     /\ db_path' = <<ByIdPath>>
                     /\ pc' = "export"
                     /\ log' = log \o <<<<"try_id">>, <<"ok_id">>>>
                     /\ UNCHANGED <<remote, exc, exitcode>>
                ELSE FolderSearch(st, dbs, <<<<"try_id">>, <<"warn_id">>>>)
     \/ /\ ~DirectConfigured
        /\ FolderSearch(stage, dbs, <<>>)
  /\ UNCHANGED <<run, prev, config, output, tables, exported>>

(***************************************************************************)
(* export_all_tables_sqlite, lines 85-108 (called at line 150).            *)
(***************************************************************************)
\* Lines 87-91: connect, read the catalog, fail without tables
ExportBegin ==
  /\ pc = "export"
  /\ LET tabs == stage[db_path[1]].content.tables
     IN  IF DOMAIN tabs = {}
         THEN /\ Raise("ValueError", <<>>)
              /\ UNCHANGED tables
         ELSE /\ tables' = Catalog(tabs)
              /\ pc' = "table"
              /\ UNCHANGED <<log, exc, exitcode>>
  /\ UNCHANGED <<run, prev, config, stage, output, remote, db_path, exported>>

\* The Export Result of line 101
Info(t, f, rows, lines) == [table |-> t, csv_path |-> f, rows |-> rows, md5 |-> md5sum(lines)]

\* The list after exported.append(info)
Appended(list, info) == Append(list, info)

\* (mutation: the entry is appended before the export is known to have succeeded)
AfterErrorKept(list, t) ==
  Append(list, [table |-> t, csv_path |-> CsvName(t), rows |-> 0, md5 |-> md5sum(<<>>)])

\* The list after a table's export raised (line 104-105: log, go on)
AfterError(list, t) == list

\* What the loop still has to visit after a table, exported or failed
Remaining(todo) == Tail(todo)

\* Lines 93-105, one pass of the loop: table t is exported, or its export
\* raises after k chunks were written (k = 0: on the query or on opening the
\* file; k = all of them: on the checksum)
ExportTable ==
  /\ pc = "table"
  /\ LET t == Head(tables)
         f == CsvName(t)
         n == stage[db_path[1]].content.tables[t]
         chunks == read_sql_query(Rows(t, n), SQLITE_CHUNKSIZE)
         old == IF f \in DOMAIN output THEN output[f].lines ELSE <<>>
         File(k) == [by |-> run, lines |-> WriteChunks(old, t, chunks, k)]
     IN  \/ /\ output' = Put(output, f, File(Len(chunks)))
            /\ exported' = Appended(exported,
                                    Info(t, f, RowsTotal(chunks, Len(chunks)), File(Len(chunks)).lines))
            /\ log' = Append(log, <<"ok", t>>)
         \/ \E k \in 0..Len(chunks) :
              /\ output' = IF k = 0 THEN output ELSE Put(output, f, File(k))
              /\ exported' = AfterError(exported, t)
              /\ log' = Append(log, <<"error", t>>)
  /\ tables' = Remaining(tables)
  /\ pc' = IF Remaining(tables) = <<>> THEN "manifest" ELSE "table"
  /\ UNCHANGED <<run, prev, config, stage, remote, db_path, exc, exitcode>>

(***************************************************************************)
(* write_manifest, lines 110-121, then the listing and the end of main.    *)
(***************************************************************************)
\* os.path.basename of a path in output/
OutBasename(f) == f

ManifestFiles(files_info) ==
  [i \in 1..Len(files_info) |->
     [table |-> files_info[i].table, filename |-> OutBasename(files_info[i].csv_path),
      rows |-> files_info[i].rows, md5 |-> files_info[i].md5]]

WriteManifest ==
  /\ pc = "manifest"
  /\ output' = Put(output, ManifestName, [by |-> run, lines |-> ManifestFiles(exported)])
  /\ Return(<<"manifest">>)
  /\ UNCHANGED <<run, prev, config, stage, remote, locals>>

(***************************************************************************)
(* Specifications.                                                         *)
(***************************************************************************)
\* One run, every database and chunk size of the bounds
ExportEnvs ==
  Envs({[hour |-> 3, minute |-> 0], [hour |-> 15, minute |-> 0]}, BOOLEAN, {"schedule"},
       BOOLEAN, {"", "id"}, 1..MaxChunk)

Init == InitWith(ExportEnvs)

Next ==
  \/ Gate
  \/ Clean
  \/ Download(Databases)
  \/ ExportBegin
  \/ ExportTable
  \/ WriteManifest

Spec == Init /\ [][Next]_vars

\* Runs that share a working directory
RunsEnvs ==
  Envs({[hour |-> 3, minute |-> 0], [hour |-> 15, minute |-> 0]}, {FALSE}, {"schedule"},
       BOOLEAN, {"", "id"}, {1})

InitRuns == InitWith(RunsEnvs)

NextRuns ==
  \/ Gate
  \/ Clean
  \/ Download(SmallDatabases)
  \/ ExportBegin
  \/ ExportTable
  \/ WriteManifest
  \/ NextRun(RunsEnvs)

SpecRuns == InitRuns /\ [][NextRuns]_vars

\* The gate alone, over every clock reading and override
GateEnvs == Envs(Times, BOOLEAN, Events, {TRUE}, {""}, {1})

InitGate == InitWith(GateEnvs)

NextGate == Gate

SpecGate == InitGate /\ [][NextGate]_vars

(***************************************************************************)
(* Vocabulary of the properties.                                           *)
(***************************************************************************)
\* The tables of the database the exporter was given
Tabs == stage[db_path[1]].content.tables

\* The tables the export loop has visited so far, in the order of their log lines
Attempted ==
  LET lines == SelectSeq(log, LAMBDA l : l[1] \in {"ok", "error"})
  IN  [i \in 1..Len(lines) |-> lines[i][2]]

ManifestByRun == ManifestName \in DOMAIN output /\ output[ManifestName].by = run

\* The last thing the process did was a call that raised
RaisedAfter(l) ==
  /\ Len(log) >= 2
  /\ log[Len(log)] = <<"fatal">>
  /\ log[Len(log) - 1] = l

DownloadRaised == RaisedAfter(<<"try_id">>) \/ RaisedAfter(<<"try_folder">>)

\* The folder download was called and returned
FolderReturned == InLog(<<"try_folder">>) /\ ~RaisedAfter(<<"try_folder">>)

\* The direct download was called and returned
DirectReturned == InLog(<<"try_id">>) /\ ~RaisedAfter(<<"try_id">>)

\* C1: when the manifest is written, its list holds exactly one entry for each
\* table of the database whose export did not raise and none for a table whose
\* export raised, in ascending catalog order, and each entry's rows is the
\* number of data rows of its table, whatever the chunk size.
C1_ManifestListsExportedTables ==
  Completed =>
    LET M == output[ManifestName].lines
        Good == {t \in DOMAIN Tabs : ~InLog(<<"error", t>>)}
    IN  /\ {M[i].table : i \in 1..Len(M)} = Good
        /\ Len(M) = Cardinality(Good)
        /\ \A i, j \in 1..Len(M) : i < j => NameLess(M[i].table, M[j].table)
        /\ \A i \in 1..Len(M) : M[i].rows = Tabs[M[i].table]

\* A manifest of a two-table database: one export raised, the other wrote a
\* table of two rows in chunks of one
C1_Witness ==
  /\ Completed
  /\ Cardinality(DOMAIN Tabs) = 2
  /\ SQLITE_CHUNKSIZE = 1
  /\ \E t, u \in DOMAIN Tabs :
       /\ InLog(<<"error", t>>)
       /\ InLog(<<"ok", u>>)
       /\ Tabs[u] = 2
       /\ Len(output[ManifestName].lines) = 1

\* C2: once a table's export has raised (wherever it raised), no exception
\* leaves the loop, the loop visits every table in catalog order, the table is
\* in neither the Export Result list nor the manifest, and the process ends
\* with the manifest written and exit code 0.
C2_FailureIsolation ==
  \A t \in TableNames :
    InLog(<<"error", t>>) =>
      /\ exc = "none"
      /\ pc \in {"table", "manifest", "done"}
      /\ Attempted \o tables = Catalog(Tabs)
      /\ \A i \in 1..Len(exported) : exported[i].table # t
      /\ pc = "done" =>
           /\ ManifestByRun
           /\ \A i \in 1..Len(output[ManifestName].lines) :
                output[ManifestName].lines[i].table # t
           /\ exitcode = <<0>>

\* The first of two tables, of two rows read in chunks of one, raised after its
\* first chunk was written; the second was exported and the run is over
C2_Witness ==
  /\ pc = "done"
  /\ SQLITE_CHUNKSIZE = 1
  /\ Len(Attempted) = 2
  /\ CsvName(Attempted[1]) # CsvName(Attempted[2])
  /\ Tabs[Attempted[1]] = 2
  /\ InLog(<<"error", Attempted[1]>>)
  /\ InLog(<<"ok", Attempted[2]>>)
  /\ CsvName(Attempted[1]) \in DOMAIN output
  /\ Len(output[CsvName(Attempted[1])].lines) = 2

\* C3: without override the gate lets the run proceed exactly at the wall-clock
\* times (hour and minute) in [15:00,23:59] or [00:00,02:00]; with the
\* force-run flag or a manual trigger it proceeds at every time.
InMinuteWindow(t) ==
  LET m == t.hour * 60 + t.minute
  IN  (15 * 60 <= m /\ m <= 23 * 60 + 59) \/ (0 <= m /\ m <= 2 * 60)

C3_GateByMinute ==
  pc # "gate" =>
    /\ ~Override => ((pc = "clean") <=> InMinuteWindow(now))
    /\ Override => pc = "clean"

C5_FetcherPathChoice ==
  LET NonEmpty == ByIdPath \in DOMAIN stage /\ stage[ByIdPath].content.size > 0
  IN  (InLog(<<"try_id">>) \/ InLog(<<"try_folder">>)) =>
        /\ InLog(<<"try_folder">>) <=> (SRC_FILE_ID = "" \/ (DirectReturned /\ ~NonEmpty))
        /\ (DirectReturned /\ NonEmpty) =>
             (db_path = <<ByIdPath>> /\ ~InLog(<<"try_folder">>) /\ remote = {})
        /\ (DirectReturned /\ ~NonEmpty /\ exc # "none") => InLog(<<"try_folder">>)

\* The direct download left a zero-byte file and the folder search selected a file
C5_Witness ==
  /\ DirectReturned
  /\ ByIdPath \in DOMAIN stage
  /\ stage[ByIdPath].content.size = 0
  /\ stage[ByIdPath].by = run
  /\ db_path # <<>>
  /\ db_path[1] \in FolderPaths

\* C6: whenever the folder search ran and the shared folder held no file named
\* TARGET_FILENAME, the run fails with FileNotFoundError, exit code 1, and
\* exports nothing.
C6_NoMatchIsFatal ==
  (FolderReturned /\ remote = {}) =>
    /\ pc = "done"
    /\ exc = "FileNotFoundError"
    /\ exitcode = <<1>>
    /\ exported = <<>>

\* C7: after the second of two consecutive completed runs with clean-output
\* enabled, every file of output/ was written by the second run.
C7_OnlyCurrentRunFiles ==
  (/\ prev # <<>>
   /\ prev[1].clean
   /\ prev[1].completed
   /\ CLEAN_OUTPUT
   /\ Completed) =>
    \A f \in DOMAIN output : output[f].by = run

\* C8: the file of every table in the Export Result list was written by this
\* run and is one header line of the table's columns followed by the table's
\* rows in read order, so that reading it back gives the table's columns and as
\* many rows as the table has and as the entry records.
C8_ExportedFileShape ==
  \A i \in 1..Len(exported) :
    LET t == exported[i].table
        file == output[exported[i].csv_path]
    IN  /\ file.by = run
        /\ file.lines = <<Header(t)>> \o Rows(t, Tabs[t])
        /\ ReadBackColumns(file.lines) = Header(t)
        /\ ReadBackRows(file.lines) = Tabs[t]
        /\ exported[i].rows = Tabs[t]

\* What does hold of the exported files: a table whose sanitized name no other
\* table of the database shares has a file of the shape above, for every chunk
\* size and row count of the bounds.
ExportedFileShapeForOwnName ==
  \A i \in 1..Len(exported) :
    (\A u \in DOMAIN Tabs : u # exported[i].table => CsvName(u) # exported[i].csv_path) =>
      LET t == exported[i].table
          file == output[exported[i].csv_path]
      IN  /\ file.by = run
          /\ file.lines = <<Header(t)>> \o Rows(t, Tabs[t])
          /\ ReadBackRows(file.lines) = exported[i].rows

\* C9: when the manifest is written, its entries name pairwise distinct files
\* of output/, and each file now has the checksum and the number of data rows
\* its entry records.
C9_ManifestMatchesDisk ==
  Completed =>
    LET M == output[ManifestName].lines
    IN  \A i \in 1..Len(M) :
          /\ M[i].filename \in DOMAIN output
          /\ md5sum(output[M[i].filename].lines) = M[i].md5
          /\ ReadBackRows(output[M[i].filename].lines) = M[i].rows
          /\ \A j \in 1..Len(M) : j # i => M[j].filename # M[i].filename

\* C10: whenever the fetcher returned the direct-download path, the file there
\* was written by this run's download call.
C10_DirectDownloadIsFresh ==
  db_path = <<ByIdPath>> => stage[ByIdPath].by = run

============================================================================
